---- MODULE Spec2Model ----
(***************************************************************************)
(* A model of app.py, the Streamlit map viewer of Turkey's provinces:      *)
(*   - load_geojson: the boundary loader with its on-disk cache and its    *)
(*     ordered list of mirror URLs (specification Spec);                   *)
(*   - normalize_name (specification SpecNorm);                            *)
(*   - resolve_feature_key and build_feature_name_map (SpecKey);           *)
(*   - build_dataframe (SpecJoin);                                         *)
(*   - select_province and the detail panel's row lookup (SpecUI).         *)
(* Strings that the program only compares are TLA+ strings; strings that   *)
(* normalize_name transforms are sequences of characters.                  *)
(***************************************************************************)
EXTENDS Integers, Sequences, FiniteSets, TLC

VARIABLES
    \* ---- load_geojson ----
    cache_file,     \* content of data/tr-81-il.geojson, or Absent
    mirror,         \* what each URL of GEOJSON_URLS answers right now
    memo,           \* st.cache_data's memoized return value, or NoMemo
    result,         \* outcome of the last call of load_geojson()
    requests,       \* URLs requested during the last call, in order
    pre_cache,      \* cache_file when the last call started
    pre_mirror,     \* mirror when the last call started
    \* ---- normalize_name ----
    name,           \* the string given to normalize_name
    normalized,     \* normalize_name(name), or Unset
    renormalized,   \* normalize_name(normalized), or Unset
    \* ---- resolve_feature_key, build_feature_name_map ----
    geojson,        \* the boundary collection
    feature_key,    \* outcome of resolve_feature_key(geojson)
    name_map,       \* build_feature_name_map(geojson, feature_key)
    key_pc,         \* "start", "resolved", "failed" or "mapped"
    \* ---- build_dataframe ----
    province_data,  \* the RegionContent list
    feature_map,    \* the NameIndex given to build_dataframe
    df,             \* the joined table
    join_done,      \* whether df has been built
    \* ---- select_province and the detail panel ----
    selectbox,      \* current value of the list selector widget
    click_event,    \* value plotly_events returned to the last run
    pre_selectbox,  \* selectbox when the last run started
    selected_province,
    panel,          \* culture text written by the detail panel
    ui_status,      \* "init", "rendered" or the exception that ended the run
    interacted      \* whether the user has clicked or chosen from the list

loadVars == <<cache_file, mirror, memo, result, requests, pre_cache, pre_mirror>>
normVars == <<name, normalized, renormalized>>

keyVars == <<geojson, feature_key, name_map, key_pc>>
joinVars == <<province_data, feature_map, df, join_done>>
uiVars == <<selectbox, click_event, pre_selectbox, selected_province, panel,
            ui_status, interacted>>

vars == <<loadVars, normVars, keyVars, joinVars, uiVars>>

\* What the operations of one component leave alone.
notLoadVars == <<normVars, keyVars, joinVars, uiVars>>
notNormVars == <<loadVars, keyVars, joinVars, uiVars>>
notKeyVars == <<loadVars, normVars, joinVars, uiVars>>
notJoinVars == <<loadVars, normVars, keyVars, uiVars>>
notUiVars == <<loadVars, normVars, keyVars>>

None == "None"

(***************************************************************************)
(* load_geojson                                                            *)
(***************************************************************************)

\* GEOJSON_URLS has two entries; a URL is its 1-based position in the list.
NumUrls == 2
GEOJSON_URLS == 1..NumUrls

Absent == "ABSENT"
NoMemo == "NoMemo"

\* File and response bodies. Two texts of the same document, another
\* document, and a body that is not JSON (an HTML error page, a cut file).
Texts == {"{A}", "{ A }", "{B}", "<html"}

DecodeFail == "JSONDecodeError"

\* json.load: the parsed document, or DecodeFail when the text is not JSON.
json_load(text) ==
    CASE text = "{A}"   -> "docA"
      [] text = "{ A }" -> "docA"
      [] text = "{B}"   -> "docB"
      [] OTHER          -> DecodeFail

Parseable(text) == text \in Texts /\ json_load(text) # DecodeFail

\* requests.RequestException raised by requests.get or raise_for_status.
Excs == {"ConnectionError", "Timeout", "HTTPError"}

Responses ==
    [ok : {TRUE}, text : Texts, exc : {None}]
        \cup [ok : {FALSE}, text : {None}, exc : Excs]

\* requests.get(url, timeout=20) followed by response.raise_for_status().
requests_get(m, url) == m[url]

\* Faulty variant: the loop gives up at the first failing URL instead of moving on.
FetchLoopStopsAtFailure(m, url, last_error, cache, reqs) ==
    LET response == requests_get(m, url)
    IN  IF ~response.ok
        THEN [last_error |-> response.exc, cache |-> cache,
              reqs |-> Append(reqs, url)]
        ELSE [last_error |-> None, cache |-> response.text,
              reqs |-> Append(reqs, url)]

\* Faulty variant: only the first failure is remembered in last_error.
RECURSIVE FetchLoopKeepsFirstError(_, _, _, _, _)
FetchLoopKeepsFirstError(m, url, last_error, cache, reqs) ==
    IF url > NumUrls
    THEN [last_error |-> last_error, cache |-> cache, reqs |-> reqs]
    ELSE LET response == requests_get(m, url)
         IN  IF ~response.ok
             THEN FetchLoopKeepsFirstError(m, url + 1,
                      IF last_error = None THEN response.exc ELSE last_error,
                      cache, Append(reqs, url))
             ELSE [last_error |-> None, cache |-> response.text,
                   reqs |-> Append(reqs, url)]

\* The for loop over GEOJSON_URLS, from position url on: a failing request
\* sets last_error and continues; the first success writes the body to the
\* cache file, clears last_error and breaks.
RECURSIVE FetchLoop(_, _, _, _, _)
FetchLoop(m, url, last_error, cache, reqs) ==
    IF url > NumUrls
    THEN [last_error |-> last_error, cache |-> cache, reqs |-> reqs]
    ELSE LET response == requests_get(m, url)
         IN  IF ~response.ok
             THEN FetchLoop(m, url + 1, response.exc, cache, Append(reqs, url))
             ELSE [last_error |-> None, cache |-> response.text,
                   reqs |-> Append(reqs, url)]

Ok(value) == [kind |-> "ok", value |-> value, cause |-> None]
Raised(type, cause) == [kind |-> type, value |-> None, cause |-> cause]
NoResult == [kind |-> "none", value |-> None, cause |-> None]

\* The body of load_geojson on a given cache file and mirrors: the file
\* afterwards, the requests made and the value returned or exception raised.
load_geojson(cache, m) ==
    LET f == IF cache = Absent
             THEN FetchLoop(m, 1, None, cache, <<>>)
             ELSE [last_error |-> None, cache |-> cache, reqs |-> <<>>]
        outcome ==
            IF f.last_error # None
            THEN Raised("RuntimeError", f.last_error)
            ELSE IF f.cache = Absent
            THEN Raised("FileNotFoundError", None)
            ELSE IF json_load(f.cache) = DecodeFail
            THEN Raised("JSONDecodeError", None)
            ELSE Ok(json_load(f.cache))
    IN  [cache |-> f.cache, reqs |-> f.reqs, result |-> outcome]

InitLoad ==
    /\ cache_file \in Texts \cup {Absent}
    /\ mirror \in [GEOJSON_URLS -> Responses]
    /\ memo = NoMemo
    /\ result = NoResult
    /\ requests = <<>>
    /\ pre_cache = Absent
    /\ pre_mirror = mirror

\* geojson = load_geojson() under @st.cache_data: a memoized value is
\* returned without running the body; a raised exception is not memoized.
Load ==
    /\ pre_cache' = cache_file
    /\ pre_mirror' = mirror
    /\ IF memo # NoMemo
       THEN /\ result' = Ok(memo)
            /\ requests' = <<>>
            /\ UNCHANGED <<cache_file, memo>>
       ELSE LET r == load_geojson(cache_file, mirror)
            IN  /\ cache_file' = r.cache
                /\ requests' = r.reqs
                /\ result' = r.result
                /\ memo' = IF r.result.kind = "ok" THEN r.result.value ELSE NoMemo
    /\ UNCHANGED <<mirror, notLoadVars>>

\* A new process: st.cache_data's memo is gone, the cache file stays.
Restart ==
    /\ memo # NoMemo
    /\ memo' = NoMemo
    /\ UNCHANGED <<cache_file, mirror, result, requests, pre_cache, pre_mirror>>
    /\ UNCHANGED notLoadVars

\* The network changes between calls: a mirror answers differently.
MirrorsChange ==
    /\ \E url \in GEOJSON_URLS, resp \in Responses :
          /\ resp # mirror[url]
          /\ mirror' = [mirror EXCEPT ![url] = resp]
    /\ UNCHANGED <<cache_file, memo, result, requests, pre_cache, pre_mirror>>
    /\ UNCHANGED notLoadVars

\* The loader's variables while another component is exercised.
IdleLoad ==
    /\ cache_file = Absent
    /\ mirror = [url \in GEOJSON_URLS |-> [ok |-> FALSE, text |-> None, exc |-> "Timeout"]]
    /\ memo = NoMemo
    /\ result = NoResult
    /\ requests = <<>>
    /\ pre_cache = Absent
    /\ pre_mirror = mirror

(***************************************************************************)
(* normalize_name                                                          *)
(***************************************************************************)

\* Longest string given to normalize_name.
MaxLen == 3

\* Characters, by name: plain a and A; the Turkish letters in both cases
\* (c_ced is c-cedilla, g_breve is g-breve, o_uml, s_ced, u_uml likewise);
\* i_dotless and I (dotless pair), i and I_dot (dotted pair); a blank.
\* comb_dot is U+0307, which str.lower() puts after i for I_dot.
Alphabet ==
    {"a", "A", "c_ced", "C_ced", "g_breve", "G_breve", "o_uml", "O_uml",
     "s_ced", "S_ced", "u_uml", "U_uml", "i_dotless", "I", "i", "I_dot", " "}

Whitespace == {" "}

Strings(n) == UNION {[1..k -> Alphabet] : k \in 0..n}

Unset == <<"unset">>

\* Faulty variant: the table sends I to dotless i instead of plain i.
replacements_dotless(c) ==
    CASE c \in {"c_ced", "C_ced"}     -> "c"
      [] c \in {"g_breve", "G_breve"} -> "g"
      [] c \in {"i_dotless", "I_dot"} -> "i"
      [] c = "I"                      -> "i_dotless"
      [] c \in {"o_uml", "O_uml"}     -> "o"
      [] c \in {"s_ced", "S_ced"}     -> "s"
      [] c \in {"u_uml", "U_uml"}     -> "u"
      [] OTHER                        -> c

\* The str.maketrans table: thirteen letters, each to one plain letter.
replacements(c) ==
    CASE c \in {"c_ced", "C_ced"}          -> "c"
      [] c \in {"g_breve", "G_breve"}      -> "g"
      [] c \in {"i_dotless", "I_dot", "I"} -> "i"
      [] c \in {"o_uml", "O_uml"}          -> "o"
      [] c \in {"s_ced", "S_ced"}          -> "s"
      [] c \in {"u_uml", "U_uml"}          -> "u"
      [] OTHER                             -> c

\* str.translate: the table applied to every character.
str_translate(s) == [i \in 1..Len(s) |-> replacements(s[i])]

\* str.lower() of one character: a sequence, since I_dot lowers to two.
lower_char(c) ==
    CASE c = "A"       -> <<"a">>
      [] c = "I"       -> <<"i">>
      [] c = "I_dot"   -> <<"i", "comb_dot">>
      [] c = "C_ced"   -> <<"c_ced">>
      [] c = "G_breve" -> <<"g_breve">>
      [] c = "O_uml"   -> <<"o_uml">>
      [] c = "S_ced"   -> <<"s_ced">>
      [] c = "U_uml"   -> <<"u_uml">>
      [] OTHER         -> <<c>>

RECURSIVE str_lower(_)
str_lower(s) ==
    IF s = <<>> THEN <<>> ELSE lower_char(Head(s)) \o str_lower(Tail(s))

\* str.strip(): leading and trailing whitespace removed.
RECURSIVE str_lstrip(_)
str_lstrip(s) ==
    IF s # <<>> /\ Head(s) \in Whitespace THEN str_lstrip(Tail(s)) ELSE s

RECURSIVE str_rstrip(_)
str_rstrip(s) ==
    IF s # <<>> /\ s[Len(s)] \in Whitespace
    THEN str_rstrip(SubSeq(s, 1, Len(s) - 1))
    ELSE s

str_strip(s) == str_rstrip(str_lstrip(s))

normalize_name(s) == str_strip(str_lower(str_translate(s)))

IdleNorm ==
    /\ name = <<>>
    /\ normalized = Unset
    /\ renormalized = Unset

InitNorm ==
    /\ name \in Strings(MaxLen)
    /\ normalized = Unset
    /\ renormalized = Unset

\* normalize_name applied to a display string.
Normalize ==
    /\ normalized = Unset
    /\ normalized' = normalize_name(name)
    /\ UNCHANGED <<name, renormalized, notNormVars>>

\* normalize_name applied to a string it returned.
Renormalize ==
    /\ normalized # Unset
    /\ renormalized = Unset
    /\ renormalized' = normalize_name(normalized)
    /\ UNCHANGED <<name, normalized, notNormVars>>

(***************************************************************************)
(* resolve_feature_key and build_feature_name_map                          *)
(***************************************************************************)

\* Most features in a boundary collection.
MaxFeatures == 2

\* The candidate property names, in the order of the for loop.
CandidateKeys == <<"name", "NAME_1", "NAME", "province">>

\* Property names a feature may carry: the candidates and an unrelated one.
PropKeys == {"name", "NAME_1", "NAME", "province", "id"}

\* Feature names as the boundary file spells them, and the empty string.
FeatureNames == {<<"A", "C_ced">>, <<"a", "c">>}
EmptyStr == <<>>

\* A dict with string keys is a function; {} is the function of domain {}.
EmptyDict == <<>>

\* Property bags: at most two properties, all holding the feature's name.
PropertyBags ==
    {[k \in D |-> v] : D \in {K \in SUBSET PropKeys : Cardinality(K) <= 2},
                       v \in FeatureNames \cup {EmptyStr}}

\* A feature: with a "properties" entry or without one.
Features ==
    [has_properties : {TRUE}, properties : PropertyBags]
        \cup {[has_properties |-> FALSE, properties |-> EmptyDict]}

\* A collection: with a "features" list (possibly empty) or without one.
Collections ==
    [has_features : {TRUE},
     features : UNION {[1..n -> Features] : n \in 0..MaxFeatures}]
        \cup {[has_features |-> FALSE, features |-> <<>>]}

\* dict.get("properties", {}) on a feature.
get_properties(feature) ==
    IF feature.has_properties THEN feature.properties ELSE EmptyDict

\* f"properties.{key}", and key.split(".", 1)[1] on such a path.
key_path(key) == <<"properties", ".", key>>
prop_key_of(path) ==
    LET dot == CHOOSE i \in 1..Len(path) :
                   path[i] = "." /\ \A j \in 1..(i - 1) : path[j] # "."
    IN  path[dot + 1]

\* The for loop over the candidates, from position i on.
RECURSIVE first_candidate(_, _)
first_candidate(sample_props, i) ==
    IF i > Len(CandidateKeys)
    THEN key_path("name")
    ELSE IF CandidateKeys[i] \in DOMAIN sample_props
    THEN key_path(CandidateKeys[i])
    ELSE first_candidate(sample_props, i + 1)

\* geojson.get("features", [{}])[0].get("properties", {}), then the loop;
\* [0] on an empty list raises IndexError.
resolve_feature_key(g) ==
    LET features == IF g.has_features
                    THEN g.features
                    ELSE <<[has_properties |-> FALSE, properties |-> EmptyDict]>>
    IN  IF features = <<>>
        THEN [kind |-> "IndexError", value |-> <<>>]
        ELSE [kind |-> "ok",
              value |-> first_candidate(get_properties(features[1]), 1)]

\* mapping[k] = v on a dict.
dict_set(mapping, k, v) ==
    [x \in DOMAIN mapping \cup {k} |-> IF x = k THEN v ELSE mapping[x]]

\* The for loop of build_feature_name_map over the features from i on.
RECURSIVE name_map_loop(_, _, _, _)
name_map_loop(features, prop_key, i, mapping) ==
    IF i > Len(features)
    THEN mapping
    ELSE LET props == get_properties(features[i])
             raw_name == IF prop_key \in DOMAIN props
                         THEN props[prop_key]
                         ELSE EmptyStr
         IN  name_map_loop(features, prop_key, i + 1,
                 IF raw_name # EmptyStr
                 THEN dict_set(mapping, normalize_name(raw_name), raw_name)
                 ELSE mapping)

build_feature_name_map(g, key) ==
    name_map_loop(IF g.has_features THEN g.features ELSE <<>>,
                  prop_key_of(key), 1, EmptyDict)

NoKey == [kind |-> "none", value |-> <<>>]

IdleKey ==
    /\ geojson = [has_features |-> FALSE, features |-> <<>>]
    /\ feature_key = NoKey
    /\ name_map = EmptyDict
    /\ key_pc = "start"

InitKey ==
    /\ geojson \in Collections
    /\ feature_key = NoKey
    /\ name_map = EmptyDict
    /\ key_pc = "start"

\* feature_key = resolve_feature_key(geojson)
ResolveKey ==
    /\ key_pc = "start"
    /\ feature_key' = resolve_feature_key(geojson)
    /\ key_pc' = IF feature_key'.kind = "ok" THEN "resolved" ELSE "failed"
    /\ UNCHANGED <<geojson, name_map, notKeyVars>>

\* feature_map = build_feature_name_map(geojson, feature_key)
BuildNameMap ==
    /\ key_pc = "resolved"
    /\ name_map' = build_feature_name_map(geojson, feature_key.value)
    /\ key_pc' = "mapped"
    /\ UNCHANGED <<geojson, feature_key, notKeyVars>>

(***************************************************************************)
(* build_dataframe                                                         *)
(***************************************************************************)

\* Most entries in the RegionContent list.
MaxRows == 2

\* Display names: one with a Turkish letter, its plain spelling, one of the
\* dotted and dotless i, and one with a leading blank.
ProvinceNames ==
    {<<"A", "c_ced">>, <<"a", "c">>, <<"I_dot", "i_dotless">>, <<" ", "a">>}

Cultures == {"X", "Y"}

Items == [name : ProvinceNames, culture : Cultures]

ItemLists == UNION {[1..n -> Items] : n \in 0..MaxRows}

\* Keys and values of a NameIndex: normalized names, and a key that is a
\* display name as written.
IndexKeys == {<<"a", "c">>, <<"i", "i">>, <<"A", "c_ced">>}

NameIndexes == UNION {[D -> FeatureNames] : D \in SUBSET IndexKeys}

\* dict.get(k, default)
dict_get(mapping, k, default) ==
    IF k \in DOMAIN mapping THEN mapping[k] ELSE default

\* Faulty variant: the index is looked up by the name as written.
record_of_raw_lookup(item, fmap) ==
    [name |-> item.name,
     feature_name |-> dict_get(fmap, item.name, item.name),
     culture |-> item.culture]

\* The loop body of build_dataframe: the record appended for one item.
record_of(item, fmap) ==
    [name |-> item.name,
     feature_name |-> dict_get(fmap, normalize_name(item.name), item.name),
     culture |-> item.culture]

\* Faulty variant: an inner join, which drops the items the index does not hold.
RECURSIVE build_dataframe_inner(_, _)
build_dataframe_inner(pdata, fmap) ==
    IF pdata = <<>>
    THEN <<>>
    ELSE IF normalize_name(Head(pdata).name) \in DOMAIN fmap
    THEN <<record_of(Head(pdata), fmap)>> \o build_dataframe_inner(Tail(pdata), fmap)
    ELSE build_dataframe_inner(Tail(pdata), fmap)

\* One record per item, appended in the order of province_data.
RECURSIVE build_dataframe(_, _)
build_dataframe(pdata, fmap) ==
    IF pdata = <<>>
    THEN <<>>
    ELSE <<record_of(Head(pdata), fmap)>> \o build_dataframe(Tail(pdata), fmap)

IdleJoin ==
    /\ province_data = <<>>
    /\ feature_map = EmptyDict
    /\ df = <<>>
    /\ join_done = FALSE

InitJoin ==
    /\ province_data \in ItemLists
    /\ feature_map \in NameIndexes
    /\ df = <<>>
    /\ join_done = FALSE

\* df = build_dataframe(province_data, feature_map)
BuildDataframe ==
    /\ ~join_done
    /\ df' = build_dataframe(province_data, feature_map)
    /\ join_done' = TRUE
    /\ UNCHANGED <<province_data, feature_map, notJoinVars>>

(***************************************************************************)
(* select_province and the detail panel (lines 126-151 of the script)      *)
(***************************************************************************)

\* RegionContent lists of a session: not empty, names unique.
SessionLists ==
    {l \in ItemLists :
        /\ l # <<>>
        /\ \A i, j \in 1..Len(l) : l[i].name = l[j].name => i = j}

\* Name indexes of a session: no name matched, one matched, two matched.
SessionIndexes ==
    {EmptyDict,
     [k \in {<<"a", "c">>} |-> <<"A", "C_ced">>],
     [k \in {<<"a", "c">>, <<"i", "i">>} |-> <<"A", "C_ced">>]}

\* What plotly_events returns: None, or a list of points. A point carries
\* the customdata set by fig.update_traces (a one-element list holding a
\* name of the table, or an empty name) or no customdata at all.
NoEvent == [present |-> FALSE, points |-> <<>>]
EmptyEvent == [present |-> TRUE, points |-> <<>>]
Points(names) ==
    [has_customdata : {TRUE}, customdata : {<<n>> : n \in names \cup {EmptyStr}}]
        \cup {[has_customdata |-> FALSE, customdata |-> <<>>]}
PointEvents(names) == {[present |-> TRUE, points |-> <<p>>] : p \in Points(names)}

\* Python truth of a click event: neither None nor an empty list.
Truthy(ev) == ev.present /\ ev.points # <<>>

NamesOf(table) == [i \in 1..Len(table) |-> table[i].name]
NameSet(table) == {table[i].name : i \in 1..Len(table)}

\* Faulty variant: the clicked name is returned even when it is empty.
select_province_no_default(province_names, ev, selectbox_value) ==
    IF Truthy(ev)
    THEN LET point == ev.points[1]
             customdata == IF point.has_customdata
                           THEN point.customdata
                           ELSE <<EmptyStr>>
         IN  customdata[1]
    ELSE selectbox_value

\* select_province: click_event[0].get("customdata", [""])[0] or
\* province_names[0] when the event is truthy, else st.selectbox's value.
select_province(province_names, ev, selectbox_value) ==
    IF Truthy(ev)
    THEN LET point == ev.points[1]
             customdata == IF point.has_customdata
                           THEN point.customdata
                           ELSE <<EmptyStr>>
         IN  IF customdata[1] # EmptyStr
             THEN customdata[1]
             ELSE province_names[1]
    ELSE selectbox_value

\* Faulty variant: the row is looked up in the feature_name column.
selected_row_by_feature_name(table, selection) ==
    LET hits == {i \in 1..Len(table) : table[i].feature_name = selection}
    IN  IF hits = {}
        THEN [found |-> FALSE, culture |-> ""]
        ELSE [found |-> TRUE,
              culture |-> table[CHOOSE i \in hits : \A j \in hits : i <= j].culture]

\* df[df["name"] == selected_province].iloc[0]: the first row of that name;
\* iloc[0] raises IndexError when there is none.
selected_row(table, selection) ==
    LET hits == {i \in 1..Len(table) : table[i].name = selection}
    IN  IF hits = {}
        THEN [found |-> FALSE, culture |-> ""]
        ELSE [found |-> TRUE,
              culture |-> table[CHOOSE i \in hits : \A j \in hits : i <= j].culture]

IdleUI ==
    /\ selectbox = EmptyStr
    /\ click_event = NoEvent
    /\ pre_selectbox = EmptyStr
    /\ selected_province = EmptyStr
    /\ panel = ""
    /\ ui_status = "init"
    /\ interacted = FALSE

\* A session whose two loads succeeded. The list selector, once shown, starts
\* at its first option.
InitUI ==
    /\ province_data \in SessionLists
    /\ feature_map \in SessionIndexes
    /\ df = <<>>
    /\ join_done = FALSE
    /\ selectbox = province_data[1].name
    /\ click_event = NoEvent
    /\ pre_selectbox = selectbox
    /\ selected_province = EmptyStr
    /\ panel = ""
    /\ ui_status = "init"
    /\ interacted = FALSE

\* One run of the script from line 126 on, given what plotly_events returns
\* and the list selector's value: the table, the selection, the panel.
RunScript(ev, selectbox_value) ==
    LET table == build_dataframe(province_data, feature_map)
        selection == select_province(NamesOf(table), ev, selectbox_value)
        row == selected_row(table, selection)
    IN  /\ df' = table
        /\ join_done' = TRUE
        /\ click_event' = ev
        /\ pre_selectbox' = selectbox_value
        /\ selected_province' = selection
        /\ ui_status' = IF row.found THEN "rendered" ELSE "IndexError"
        /\ panel' = row.culture
        /\ UNCHANGED <<province_data, feature_map, notUiVars>>

\* The first run of a session: nothing has been clicked.
FirstRun ==
    /\ ui_status = "init"
    /\ \E ev \in {NoEvent, EmptyEvent} : RunScript(ev, selectbox)
    /\ UNCHANGED <<selectbox, interacted>>

\* The user clicks on the map and the script runs again. The list selector
\* is not shown in a run whose click event is truthy; the widget may then
\* keep its value or fall back to its first option.
MapClick ==
    /\ ui_status # "init"
    /\ \E ev \in PointEvents(NameSet(df)) \cup {NoEvent, EmptyEvent} :
          /\ RunScript(ev, selectbox)
          /\ selectbox' \in IF Truthy(ev)
                            THEN {selectbox, province_data[1].name}
                            ELSE {selectbox}
    /\ interacted' = TRUE

\* The user picks a name in the list selector, which the last run showed,
\* and the script runs again with the click event unchanged.
ListChoice ==
    /\ ui_status = "rendered"
    /\ ~Truthy(click_event)
    /\ \E n \in NameSet(df) :
          /\ n # selectbox
          /\ selectbox' = n
          /\ RunScript(click_event, n)
    /\ interacted' = TRUE

(***************************************************************************)
(* Specifications                                                          *)
(***************************************************************************)

NextLoad ==
    \/ Load
    \/ Restart
    \/ MirrorsChange

Init == InitLoad /\ IdleNorm /\ IdleKey /\ IdleJoin /\ IdleUI

Spec == Init /\ [][NextLoad]_vars

NextNorm ==
    \/ Normalize
    \/ Renormalize

InitN == InitNorm /\ IdleLoad /\ IdleKey /\ IdleJoin /\ IdleUI

SpecNorm == InitN /\ [][NextNorm]_vars

(***************************************************************************)
(* Claims about load_geojson (specification Spec)                          *)
(***************************************************************************)

Loaded == result.kind # "none"

\* The last call started without a cache file, the first mirror failing
\* and the second answering.
FirstFailsSecondAnswers ==
    /\ Loaded
    /\ pre_cache = Absent
    /\ ~pre_mirror[1].ok
    /\ pre_mirror[2].ok

\* C1 as stated: with no cache file, a failing first mirror and an answering
\* second mirror, the load succeeds, returns the second mirror's content and
\* leaves that content in the cache file.
C1_FallbackSucceeds ==
    FirstFailsSecondAnswers =>
        /\ result.kind = "ok"
        /\ result.value = json_load(pre_mirror[2].text)
        /\ cache_file = pre_mirror[2].text

\* The fallback case when the second mirror's body is a JSON document.
C1_Fallback ==
    (FirstFailsSecondAnswers /\ Parseable(pre_mirror[2].text)) =>
        /\ result = Ok(json_load(pre_mirror[2].text))
        /\ cache_file = pre_mirror[2].text
        /\ requests = <<1, 2>>

\* A call that finds a cache file holding a JSON document returns that
\* document, requests nothing and leaves the file as it was.
C1_CacheHit ==
    (Loaded /\ Parseable(pre_cache)) =>
        /\ result = Ok(json_load(pre_cache))
        /\ requests = <<>>
        /\ cache_file = pre_cache

\* A cache file holding a JSON document is never removed or rewritten.
C1_CacheKept == Parseable(cache_file) => cache_file' = cache_file

\* C1, amended: with no cache file, a failing first mirror and a second
\* mirror answering with a parseable body, the load returns that body's
\* document and the cache file holds the body; the file then stays, and every
\* later load returns the cached document with zero network requests.
C1_FallbackThenCache ==
    /\ [](C1_Fallback /\ C1_CacheHit)
    /\ [][C1_CacheKept]_vars

C1_Witness ==
    /\ FirstFailsSecondAnswers
    /\ Parseable(pre_mirror[2].text)
    /\ result.kind = "ok"
    /\ requests = <<1, 2>>
    /\ cache_file = pre_mirror[2].text

\* C2: with no cache file and every mirror failing, the load raises the
\* download error (RuntimeError "GeoJSON download failed") whose cause is the
\* last URL's exception, each URL was requested exactly once, in order, and
\* there is no cache file afterwards.
C2_AllMirrorsFail ==
    (Loaded /\ pre_cache = Absent /\ \A url \in GEOJSON_URLS : ~pre_mirror[url].ok) =>
        /\ result.kind = "RuntimeError"
        /\ result.cause = pre_mirror[NumUrls].exc
        /\ requests = [i \in 1..NumUrls |-> i]
        /\ cache_file = Absent
        /\ memo = NoMemo

C2_Witness ==
    /\ Loaded
    /\ pre_cache = Absent
    /\ \A url \in GEOJSON_URLS : ~pre_mirror[url].ok
    /\ pre_mirror[1].exc # pre_mirror[NumUrls].exc
    /\ result.kind = "RuntimeError"
    /\ result.cause = pre_mirror[NumUrls].exc

\* C3: a call that finds a cache file that does not parse goes on to the
\* mirror URLs as if there were no file, and succeeds when a mirror answers
\* with a parseable body.
C3_UnparseableCacheIsMiss ==
    (Loaded /\ pre_cache \in Texts /\ ~Parseable(pre_cache)) =>
        /\ requests # <<>>
        /\ result.kind # "JSONDecodeError"
               \/ \A url \in GEOJSON_URLS :
                     ~(pre_mirror[url].ok /\ Parseable(pre_mirror[url].text))

(***************************************************************************)
(* Claims about normalize_name (specification SpecNorm)                    *)
(***************************************************************************)

\* C8: normalize_name is idempotent: normalizing a normalized string gives
\* the same string.
C8_Idempotent == renormalized # Unset => renormalized = normalized

C8_Witness ==
    /\ renormalized # Unset
    /\ Len(name) = 3
    /\ name[1] \in Whitespace
    /\ name[2] = "I_dot"
    /\ name[3] = "I"
    /\ normalized = <<"i", "i">>

NextKey ==
    \/ ResolveKey
    \/ BuildNameMap

InitK == InitKey /\ IdleLoad /\ IdleNorm /\ IdleJoin /\ IdleUI

SpecKey == InitK /\ [][NextKey]_vars

NextJoin == BuildDataframe

InitJ == InitJoin /\ IdleLoad /\ IdleNorm /\ IdleKey /\ IdleUI

SpecJoin == InitJ /\ [][NextJoin]_vars

NextUI ==
    \/ FirstRun
    \/ MapClick
    \/ ListChoice

InitU == InitUI /\ IdleLoad /\ IdleNorm /\ IdleKey

SpecUI == InitU /\ [][NextUI]_vars

(***************************************************************************)
(* Claims about resolve_feature_key (specification SpecKey)                *)
(***************************************************************************)

\* The property bag the claim samples: that of the first feature, empty when
\* there is no feature or the first feature has no bag.
ClaimedSample ==
    IF geojson.has_features /\ geojson.features # <<>>
    THEN get_properties(geojson.features[1])
    ELSE EmptyDict

ClaimedKey ==
    LET present == {i \in 1..Len(CandidateKeys) :
                        CandidateKeys[i] \in DOMAIN ClaimedSample}
    IN  IF present = {}
        THEN CandidateKeys[1]
        ELSE CandidateKeys[CHOOSE i \in present : \A j \in present : i <= j]

\* C9: resolve_feature_key never fails, whatever the collection (one with no
\* features included): it returns the first candidate present in the first
\* feature's property bag, and the first candidate when none is present.
C9_NeverFails ==
    key_pc # "start" =>
        /\ feature_key.kind = "ok"
        /\ feature_key.value = key_path(ClaimedKey)

(***************************************************************************)
(* Claims about build_dataframe (specification SpecJoin)                   *)
(***************************************************************************)

\* C6: for every item r, the row at r's position has feature_name equal to
\* the index's value under normalize_name(r.name) when the index has that
\* key, and equal to r.name otherwise.
C6_FeatureName ==
    join_done =>
        \A i \in 1..Len(province_data) :
            /\ i <= Len(df)
            /\ LET r == province_data[i]
                   k == normalize_name(r.name)
               IN  IF k \in DOMAIN feature_map
                   THEN df[i].feature_name = feature_map[k]
                   ELSE df[i].feature_name = r.name

C6_Witness ==
    /\ join_done
    /\ Len(province_data) = 2
    /\ province_data[1].name = <<"A", "c_ced">>
    /\ province_data[2].name = <<"I_dot", "i_dotless">>
    /\ DOMAIN feature_map = {<<"a", "c">>, <<"A", "c_ced">>}
    /\ feature_map[<<"a", "c">>] = <<"A", "C_ced">>
    /\ df[1].feature_name = <<"A", "C_ced">>
    /\ df[2].feature_name = <<"I_dot", "i_dotless">>

\* C7: the joined table has one row per item, in the order of the items,
\* each row carrying its item's name and culture, however many names match.
C7_OneRowPerItem ==
    join_done =>
        /\ Len(df) = Len(province_data)
        /\ \A i \in 1..Len(province_data) :
              /\ df[i].name = province_data[i].name
              /\ df[i].culture = province_data[i].culture

C7_Witness ==
    /\ join_done
    /\ Len(df) = 2
    /\ normalize_name(province_data[1].name) \notin DOMAIN feature_map
    /\ normalize_name(province_data[2].name) \in DOMAIN feature_map
    /\ province_data[1] # province_data[2]

(***************************************************************************)
(* Claims about the selection and the detail panel (specification SpecUI)  *)
(***************************************************************************)

\* The region name a click event carries; empty when there is no event, no
\* point, no name payload or an empty one.
ClickName(ev) ==
    IF Truthy(ev) /\ ev.points[1].has_customdata
    THEN ev.points[1].customdata[1]
    ELSE EmptyStr

\* C4: the selection is the click event's name when that name is not empty,
\* and the list selector's current value in every other case.
C4_ClickElseSelector ==
    ui_status # "init" =>
        IF ClickName(click_event) # EmptyStr
        THEN selected_province = ClickName(click_event)
        ELSE selected_province = pre_selectbox

\* C5: after any clicks and list choices the selection is the name of a row
\* of the joined table, and the detail panel's row lookup finds a row.
C5_SelectionInTable ==
    ui_status # "init" =>
        /\ selected_province \in NameSet(df)
        /\ ui_status = "rendered"

C5_Witness ==
    /\ interacted
    /\ ui_status = "rendered"
    /\ Len(df) = 2
    /\ Truthy(click_event)
    /\ ClickName(click_event) = EmptyStr
    /\ pre_selectbox = df[2].name
    /\ selected_province \in NameSet(df)

\* C10: in a session without a click and without a list choice, the
\* selection is the first item's name and the panel shows its culture.
C10_DefaultSelection ==
    (ui_status # "init" /\ ~interacted) =>
        /\ ui_status = "rendered"
        /\ selected_province = province_data[1].name
        /\ panel = province_data[1].culture

C10_Witness ==
    /\ ui_status = "rendered"
    /\ ~interacted
    /\ Len(province_data) = 2
    /\ province_data[1].culture # province_data[2].culture
    /\ df[1].feature_name # df[1].name
    /\ panel = province_data[1].culture

====
